---- MODULE Spec2Model ----
(***************************************************************************)
(* Dwarf2Ctags (src/src/main.rs): walk the DWARF units of an ELF file,     *)
(* resolve name / declaring file / line / column of every subprogram       *)
(* entry, collect the records, sort, dedup and print them as a ctags file. *)
(*                                                                         *)
(* Text is a sequence of byte values; Option<T> is <<>> (None) or <<x>>.   *)
(* Every unwrap()/expect() of the source is a panic: pc = "aborted".       *)
(***************************************************************************)
EXTENDS Integers, Sequences, FiniteSets, TLC

VARIABLES pc, unit, attr, func_name, file_name, line_number, column_number,
          func_info, file_info_list, collected, pos, output

vars == <<pc, unit, attr, func_name, file_name, line_number, column_number,
          func_info, file_info_list, collected, pos, output>>

\* Largest number of records the collector holds in the model.
MaxList == 2

None == <<>>
Some(x) == <<x>>

----------------------------------------------------------------------------
\* Bytes of the format string of print_file_info and of the path separator.
TAB == 9
COLON == 58
SLASH == 47
ZERO == 48

\* "!_TAG_FILE_FORMAT\t2\t/extended format; --format=1 will not append ;\" to lines/"
Header1 == <<33, 95, 84, 65, 71, 95, 70, 73, 76, 69, 95, 70, 79, 82, 77, 65,
             84, 9, 50, 9, 47, 101, 120, 116, 101, 110, 100, 101, 100, 32,
             102, 111, 114, 109, 97, 116, 59, 32, 45, 45, 102, 111, 114, 109,
             97, 116, 61, 49, 32, 119, 105, 108, 108, 32, 110, 111, 116, 32,
             97, 112, 112, 101, 110, 100, 32, 59, 34, 32, 116, 111, 32, 108,
             105, 110, 101, 115, 47>>

\* "!_TAG_FILE_SORTED\t1\t/0=unsorted, 1=sorted, 2=foldcase/"
Header2 == <<33, 95, 84, 65, 71, 95, 70, 73, 76, 69, 95, 83, 79, 82, 84, 69,
             68, 9, 49, 9, 47, 48, 61, 117, 110, 115, 111, 114, 116, 101, 100,
             44, 32, 49, 61, 115, 111, 114, 116, 101, 100, 44, 32, 50, 61,
             102, 111, 108, 100, 99, 97, 115, 101, 47>>

----------------------------------------------------------------------------
\* The input: what the ELF file's DWARF sections hold.

\* "a", "b", "/a.c", "b.h", "d/b.h", "d", "d/", "x.c"
Txt_a == <<97>>
Txt_b == <<98>>
Txt_abs_a_c == <<47, 97, 46, 99>>
Txt_b_h == <<98, 46, 104>>
Txt_d_b_h == <<100, 47, 98, 46, 104>>
Txt_d == <<100>>
Txt_d_slash == <<100, 47>>
Txt_x_c == <<120, 46, 99>>

\* .debug_str: the offsets at which a valid UTF-8 string starts, and the
\* string found there.  get_str / to_string fail at any other offset.
DebugStrOffsets == {0, 1, 2}
DebugStrAt(d) == CASE d = 0 -> Txt_a
                   [] d = 1 -> Txt_b
                   [] OTHER -> Txt_b_h

\* Line-number program headers: include directories (directory 0 first) and
\* file_names(), both 1-based here: the Rust slice position k is element k+1.
LineProgram1 ==
    [dirs  |-> << [kind |-> "String", str |-> Txt_d],
                  [kind |-> "DebugLineStrRef", str |-> <<>>] >>,
     files |-> << [dir |-> 0, path |-> [kind |-> "String", val |-> 0, str |-> Txt_x_c]],
                  [dir |-> 0, path |-> [kind |-> "DebugStrRef", val |-> 2, str |-> <<>>]],
                  [dir |-> 1, path |-> [kind |-> "String", val |-> 0, str |-> Txt_b_h]],
                  [dir |-> 0, path |-> [kind |-> "DebugStrRef", val |-> 7, str |-> <<>>]] >>]

LineProgram2 ==
    [dirs  |-> << [kind |-> "String", str |-> Txt_d_slash],
                  [kind |-> "String", str |-> <<>>] >>,
     files |-> << [dir |-> 0, path |-> [kind |-> "String", val |-> 0, str |-> Txt_x_c]],
                  [dir |-> 0, path |-> [kind |-> "String", val |-> 0, str |-> Txt_b_h]],
                  [dir |-> 0, path |-> [kind |-> "String", val |-> 0, str |-> Txt_abs_a_c]],
                  [dir |-> 1, path |-> [kind |-> "String", val |-> 0, str |-> Txt_d_b_h]],
                  [dir |-> 3, path |-> [kind |-> "String", val |-> 0, str |-> Txt_b_h]] >>]

\* gimli::Unit as far as the program reads it: name and line_program.
Units ==
    { [name |-> Some(Txt_abs_a_c), line_program |-> None],
      [name |-> Some(Txt_abs_a_c), line_program |-> Some(LineProgram1)],
      [name |-> None,              line_program |-> Some(LineProgram2)] }

\* The attributes a subprogram entry may carry: (name, value kind, value).
Attrs ==
    [name : {"DW_AT_name"}, kind : {"DebugStrRef"}, val : {0, 1, 5}]
    \cup [name : {"DW_AT_name"}, kind : {"String"}, val : {0}]
    \cup [name : {"DW_AT_decl_file"}, kind : {"FileIndex"}, val : 0 .. 6]
    \cup [name : {"DW_AT_decl_file"}, kind : {"String"}, val : {0}]
    \cup [name : {"DW_AT_decl_line"}, kind : {"Udata"}, val : {2, 10}]
    \cup [name : {"DW_AT_decl_line"}, kind : {"String"}, val : {0}]
    \cup [name : {"DW_AT_decl_column"}, kind : {"Udata"}, val : {1, 2}]
    \cup [name : {"DW_AT_decl_column"}, kind : {"String"}, val : {0}]
    \cup [name : {"DW_AT_external"}, kind : {"Flag"}, val : {1}]

\* Tags of the entries the walker yields.
Tags == {"DW_TAG_subprogram", "DW_TAG_variable"}

----------------------------------------------------------------------------
\* Helpers for the Rust library calls the program makes.

\* slice.get(i): Rust positions start at 0.
Get(s, i) == IF i >= 0 /\ i < Len(s) THEN Some(s[i + 1]) ELSE None

\* usize arithmetic wraps modulo 2^64 when overflow checks are off; the
\* modulus is represented by 2^30, far above every table length.
UsizeModulus == 2 ^ 30

\* Variant: val.saturating_sub(1), which never overflows.
SubOneSaturating(val) == {Some(IF val >= 1 THEN val - 1 ELSE 0)}

\* (val - 1) as usize: the results the builds can produce, None when the
\* subtraction panics (overflow checks on), the wrapped value when they are off.
SubOne(val) ==
    IF val >= 1 THEN {Some(val - 1)}
    ELSE {None, Some((val - 1) % UsizeModulus)}

\* debug_str.get_str(d).unwrap().to_string().unwrap()
GetStr(d) == IF d \in DebugStrOffsets THEN Some(DebugStrAt(d)) ELSE None

\* dwarf.attr_string(&unit, value): an inline string, or a .debug_str
\* reference; every other kind of value is an error.
AttrString(v) ==
    CASE v.kind = "String" -> Some(v.str)
      [] v.kind = "DebugStrRef" -> GetStr(v.val)
      [] OTHER -> None

\* std::path::Path::new(dir).join(file): an absolute file replaces dir, a
\* separator is inserted unless dir is empty or already ends with one.
PathJoin(dir, file) ==
    IF Len(file) > 0 /\ file[1] = SLASH THEN file
    ELSE IF Len(dir) = 0 \/ dir[Len(dir)] = SLASH THEN dir \o file
    ELSE dir \o <<SLASH>> \o file

\* The else branch of DW_AT_decl_file: the file name through the line-number
\* program.  st = "panic" for a failed unwrap, "gap" when the directory is no
\* inline string and file_name is left as it was.
Panic == [st |-> "panic", v |-> <<>>]
Gap == [st |-> "gap", v |-> <<>>]
Resolved(v) == [st |-> "ok", v |-> v]

\* Variant: the file entry one position further on.
LineProgramFileOffByOne(u, index) ==
    IF u.line_program = None THEN Panic
    ELSE LET header == u.line_program[1]
             f == Get(header.files, index + 1)
         IN IF f = None THEN Panic
            ELSE LET dir == Get(header.dirs, f[1].dir)
                 IN IF dir = None THEN Panic
                    ELSE IF dir[1].kind # "String" THEN Gap
                    ELSE LET file_str == AttrString(f[1].path)
                         IN IF file_str = None THEN Panic
                            ELSE Resolved(PathJoin(dir[1].str, file_str[1]))

LineProgramFile(u, index) ==
    IF u.line_program = None THEN Panic
    ELSE LET header == u.line_program[1]
             f == Get(header.files, index)
         IN IF f = None THEN Panic
            ELSE LET dir == Get(header.dirs, f[1].dir)
                 IN IF dir = None THEN Panic
                    ELSE IF dir[1].kind # "String" THEN Gap
                    ELSE LET file_str == AttrString(f[1].path)
                         IN IF file_str = None THEN Panic
                            ELSE Resolved(PathJoin(dir[1].str, file_str[1]))

\* Variant: index 0 looked up in the file table like every other index.
FileOfIndexThroughTable(u, index) == LineProgramFile(u, index)

\* The DW_AT_decl_file arm once index is computed.
FileOfIndex(u, index) ==
    IF index = 0
    THEN (IF u.name = None THEN Panic ELSE Resolved(u.name[1]))
    ELSE LineProgramFile(u, index)

\* The DW_AT_decl_file arm for FileIndex(val): its possible outcomes.
DeclFile(u, val) ==
    { IF index = None THEN Panic ELSE FileOfIndex(u, index[1]) : index \in SubOne(val) }

\* derive(Ord) on String: byte-wise lexicographic.
StrLess(s, t) ==
    \E k \in 1 .. (Len(t)) :
        /\ \A j \in 1 .. (k - 1) : j <= Len(s) /\ s[j] = t[j]
        /\ (k > Len(s) \/ s[k] < t[k])

\* derive(PartialOrd, Ord) on FunctionInfo: fields in declaration order.
InfoLess(x, y) ==
    \/ StrLess(x.func_name, y.func_name)
    \/ /\ x.func_name = y.func_name
       /\ \/ StrLess(x.file_name, y.file_name)
          \/ /\ x.file_name = y.file_name
             /\ \/ x.line_number < y.line_number
                \/ /\ x.line_number = y.line_number
                   /\ x.column_number < y.column_number

\* Vec::sort: a stable sort by InfoLess.
RECURSIVE InsertSorted(_, _)
InsertSorted(s, x) ==
    IF s = <<>> THEN <<x>>
    ELSE IF InfoLess(x, Head(s)) THEN <<x>> \o s
    ELSE <<Head(s)>> \o InsertSorted(Tail(s), x)

\* Variant: the list left in push order.
SortListNoop(s) == s

RECURSIVE SortList(_)
SortList(s) ==
    IF s = <<>> THEN <<>>
    ELSE InsertSorted(SortList(SubSeq(s, 1, Len(s) - 1)), s[Len(s)])

\* Variant: no element dropped.
DedupListNoop(s) == s

\* Vec::dedup: drops every element equal to the one before it.
RECURSIVE DedupList(_)
DedupList(s) ==
    IF Len(s) <= 1 THEN s
    ELSE LET front == DedupList(SubSeq(s, 1, Len(s) - 1))
         IN IF s[Len(s)] = s[Len(s) - 1] THEN front ELSE Append(front, s[Len(s)])

\* "{}" of a u64: its decimal digits.
RECURSIVE Decimal(_)
Decimal(n) ==
    IF n < 10 THEN <<ZERO + n>>
    ELSE Append(Decimal(n \div 10), ZERO + (n % 10))

\* print_file_info: "{}\t{}\t:{}" of func, file, line.
FormatLine(f) ==
    f.func_name \o <<TAB>> \o f.file_name \o <<TAB, COLON>> \o Decimal(f.line_number)

----------------------------------------------------------------------------
Init ==
    /\ pc = "load"
    /\ unit = None
    /\ attr = None
    /\ func_name = None
    /\ file_name = None
    /\ line_number = None
    /\ column_number = None
    /\ func_info = None
    /\ file_info_list = <<>>
    /\ collected = <<>>
    /\ pos = 0
    /\ output = <<>>

Locals == <<func_name, file_name, line_number, column_number>>

\* A failed unwrap()/expect(): the process panics where it stands; unwinding
\* drops the unit and the locals of process_subprogram.
Abort ==
    /\ pc' = "aborted"
    /\ unit' = None
    /\ func_name' = None
    /\ file_name' = None
    /\ line_number' = None
    /\ column_number' = None
    /\ func_info' = None
    /\ UNCHANGED <<file_info_list, collected, pos, output>>

\* Variant: the two header lines printed before the traversal.
LoadDwarfPrintingHeaders ==
    /\ pc = "load"
    /\ \E ok \in BOOLEAN :
        IF ok
        THEN /\ pc' = "units"
             /\ output' = <<Header1, Header2>>
             /\ UNCHANGED <<unit, attr, func_name, file_name, line_number,
                            column_number, func_info, file_info_list, collected, pos>>
        ELSE Abort /\ UNCHANGED attr

\* main, lines 130-152: argument, file read, ELF parse, Dwarf::load.
LoadDwarf ==
    /\ pc = "load"
    /\ \E ok \in BOOLEAN :
        IF ok
        THEN /\ pc' = "units"
             /\ UNCHANGED <<unit, attr, Locals, func_info, file_info_list,
                            collected, pos, output>>
        ELSE Abort /\ UNCHANGED attr

\* while let Some(header) = iter.next().unwrap(), and dwarf.unit(header).unwrap()
NextUnit ==
    /\ pc = "units"
    /\ \E r \in {"Err", "None", "Some"} :
        CASE r = "Err" -> Abort /\ UNCHANGED attr
          [] r = "None" ->
                /\ pc' = "header1"
                /\ UNCHANGED <<unit, attr, Locals, func_info, file_info_list,
                               collected, pos, output>>
          [] OTHER ->
                \E u \in Units, unit_ok \in BOOLEAN :
                    IF unit_ok
                    THEN /\ pc' = "entries"
                         /\ unit' = Some(u)
                         /\ UNCHANGED <<attr, Locals, func_info, file_info_list,
                                        collected, pos, output>>
                    ELSE Abort /\ UNCHANGED attr

\* while let Some((_, entry)) = entries.next_dfs().unwrap(), and the match on
\* entry.tag() up to the call of process_subprogram (lines 19-23).
NextEntry ==
    /\ pc = "entries"
    /\ \E r \in {"Err", "None"} \cup Tags :
        CASE r = "Err" -> Abort /\ UNCHANGED attr
          [] r = "None" ->
                /\ pc' = "units"
                /\ unit' = None
                /\ func_info' = None
                /\ UNCHANGED <<attr, Locals, file_info_list, collected, pos, output>>
          [] r = "DW_TAG_subprogram" ->
                /\ Len(file_info_list) < MaxList
                /\ pc' = "attrs"
                /\ func_info' = None
                /\ func_name' = None
                /\ file_name' = None
                /\ line_number' = None
                /\ column_number' = None
                /\ UNCHANGED <<unit, attr, file_info_list, collected, pos, output>>
          [] OTHER ->
                /\ func_info' = None
                /\ UNCHANGED <<pc, unit, attr, Locals, file_info_list, collected,
                               pos, output>>

\* Variant: a record as soon as name, file and line are resolved.
ReturnValueWithoutColumn(func, file, line, col) ==
    IF func # None /\ file # None /\ line # None
    THEN Some([func_name |-> func[1], file_name |-> file[1],
               line_number |-> line[1],
               column_number |-> IF col = None THEN 0 ELSE col[1]])
    ELSE None

\* Lines 85-96: the record, when all four fields are resolved.
ReturnValue(func, file, line, col) ==
    IF func # None /\ file # None /\ line # None /\ col # None
    THEN Some([func_name |-> func[1], file_name |-> file[1],
               line_number |-> line[1], column_number |-> col[1]])
    ELSE None

\* One arm of the match on attr.name() (lines 26-83): the possible outcomes,
\* each the new values of the four locals, or a panic.
MatchAttr(a, u) ==
    LET keep == [st |-> "ok", func |-> func_name, file |-> file_name,
                 line |-> line_number, col |-> column_number]
        panic == [keep EXCEPT !.st = "panic"]
    IN CASE a.name = "DW_AT_name" ->
              IF a.kind = "DebugStrRef"
              THEN (IF GetStr(a.val) = None THEN {panic}
                    ELSE {[keep EXCEPT !.func = GetStr(a.val)]})
              ELSE {keep}
         [] a.name = "DW_AT_decl_file" ->
              IF a.kind = "FileIndex"
              THEN { CASE r.st = "panic" -> panic
                       [] r.st = "gap" -> keep
                       [] OTHER -> [keep EXCEPT !.file = Some(r.v)]
                     : r \in DeclFile(u, a.val) }
              ELSE {keep}
         [] a.name = "DW_AT_decl_line" ->
              IF a.kind = "Udata" THEN {[keep EXCEPT !.line = Some(a.val)]} ELSE {panic}
         [] a.name = "DW_AT_decl_column" ->
              IF a.kind = "Udata" THEN {[keep EXCEPT !.col = Some(a.val)]} ELSE {panic}
         [] OTHER -> {keep}

\* process_subprogram: one turn of while let Some(attr) = attrs.next().unwrap(),
\* or, when the attributes are exhausted, the return and main's push.
NextAttr ==
    /\ pc = "attrs"
    /\ \E r \in {"Err", "None", "Some"} :
        CASE r = "Err" -> Abort /\ attr' = None
          [] r = "None" ->
                LET ret == ReturnValue(func_name, file_name, line_number, column_number)
                IN /\ pc' = "entries"
                   /\ attr' = None
                   /\ func_info' = Some(ret)
                   /\ file_info_list' = file_info_list \o ret
                   /\ collected' = collected \o ret
                   /\ func_name' = None
                   /\ file_name' = None
                   /\ line_number' = None
                   /\ column_number' = None
                   /\ UNCHANGED <<unit, pos, output>>
          [] OTHER ->
                \E a \in Attrs :
                    \E m \in MatchAttr(a, unit[1]) :
                       /\ attr' = Some(a)
                       /\ IF m.st = "panic"
                          THEN Abort
                          ELSE /\ func_name' = m.func
                               /\ file_name' = m.file
                               /\ line_number' = m.line
                               /\ column_number' = m.col
                               /\ UNCHANGED <<pc, unit, func_info, file_info_list,
                                              collected, pos, output>>

\* Variant: the data lines printed right after the headers, before sort and dedup.
PrintHeader2ThenEmit ==
    /\ pc = "header2"
    /\ output' = Append(output, Header2)
    /\ pos' = 0
    /\ pc' = "emit"
    /\ UNCHANGED <<unit, attr, func_name, file_name, line_number, column_number,
                   func_info, file_info_list, collected>>

\* println!("!_TAG_FILE_FORMAT...") and println!("!_TAG_FILE_SORTED...")
PrintHeader1 ==
    /\ pc = "header1"
    /\ output' = Append(output, Header1)
    /\ pc' = "header2"
    /\ UNCHANGED <<unit, attr, Locals, func_info, file_info_list, collected, pos>>

PrintHeader2 ==
    /\ pc = "header2"
    /\ output' = Append(output, Header2)
    /\ pc' = "sort"
    /\ UNCHANGED <<unit, attr, Locals, func_info, file_info_list, collected, pos>>

\* file_info_list.sort()
Sort ==
    /\ pc = "sort"
    /\ file_info_list' = SortList(file_info_list)
    /\ pc' = "dedup"
    /\ UNCHANGED <<unit, attr, Locals, func_info, collected, pos, output>>

\* file_info_list.dedup()
Dedup ==
    /\ pc = "dedup"
    /\ file_info_list' = DedupList(file_info_list)
    /\ pos' = 0
    /\ pc' = "emit"
    /\ UNCHANGED <<unit, attr, Locals, func_info, collected, output>>

\* for f in file_info_list.iter() { print_file_info(f) }, and the end of main
Emit ==
    /\ pc = "emit"
    /\ IF pos < Len(file_info_list)
       THEN /\ output' = Append(output, FormatLine(file_info_list[pos + 1]))
            /\ pos' = pos + 1
            /\ UNCHANGED pc
       ELSE /\ pc' = "done"
            /\ UNCHANGED <<pos, output>>
    /\ UNCHANGED <<unit, attr, Locals, func_info, file_info_list, collected>>

Next ==
    \/ LoadDwarf
    \/ NextUnit
    \/ NextEntry
    \/ NextAttr
    \/ PrintHeader1
    \/ PrintHeader2
    \/ Sort
    \/ Dedup
    \/ Emit

Spec == Init /\ [][Next]_vars

----------------------------------------------------------------------------
\* Properties.

Range(s) == {s[i] : i \in 1 .. Len(s)}
IsDeclFileIndex(a) == a.name = "DW_AT_decl_file" /\ a.kind = "FileIndex"

\* The order of section 3: lexicographic over (name, file, line, column).
C1_Before(x, y) ==
    LET kx == <<x.func_name, x.file_name>>
        ky == <<y.func_name, y.file_name>>
    IN \/ StrLess(x.func_name, y.func_name)
       \/ x.func_name = y.func_name /\ StrLess(x.file_name, y.file_name)
       \/ kx = ky /\ x.line_number < y.line_number
       \/ kx = ky /\ x.line_number = y.line_number
                  /\ x.column_number < y.column_number

\* C1: once sort() and dedup() have run, the list that is emitted holds no two
\* records equal in all four fields and is sorted ascending under the
\* lexicographic order over (name, file, line, column).
C1_SortedNoDuplicates ==
    pc \in {"emit", "done"} =>
        /\ \A i, j \in 1 .. Len(file_info_list) :
              i # j => file_info_list[i] # file_info_list[j]
        /\ \A i \in 1 .. (Len(file_info_list) - 1) :
              C1_Before(file_info_list[i], file_info_list[i + 1])

\* Two records were pushed in descending order and are emitted ascending.
C1_Witness ==
    /\ pc = "done"
    /\ Len(collected) = 2
    /\ C1_Before(collected[2], collected[1])
    /\ file_info_list = <<collected[2], collected[1]>>

\* C2 (as claimed): no two data lines of the finished output carry the same
\* name, file and line.
C2_UniqueNameFileLine ==
    pc = "done" =>
        \A i, j \in 3 .. Len(output) : i # j => output[i] # output[j]

\* C3: process_subprogram returns Some(record) exactly when name, file, line
\* and column are all resolved, the record carrying the resolved values; in
\* every other case it returns None and the collector is left as it was.
C3_RecordIffAllResolved ==
    [][(pc = "attrs" /\ pc' = "entries") =>
         IF func_name # None /\ file_name # None
            /\ line_number # None /\ column_number # None
         THEN LET f == [func_name |-> func_name[1], file_name |-> file_name[1],
                        line_number |-> line_number[1],
                        column_number |-> column_number[1]]
              IN /\ func_info' = Some(Some(f))
                 /\ file_info_list' = Append(file_info_list, f)
         ELSE /\ func_info' = Some(None)
              /\ file_info_list' = file_info_list]_vars

\* An entry has returned None after an earlier one gave a record.
C3_Witness ==
    /\ pc = "entries"
    /\ func_info = Some(None)
    /\ file_info_list # <<>>

\* C4: a run that aborts has written nothing, and once a byte is written the
\* run is past every step that can fail.
C4_NoOutputBeforeFailure ==
    /\ pc = "aborted" => output = <<>>
    /\ output # <<>> => pc \in {"header2", "sort", "dedup", "emit", "done"}

\* The run aborts while resolving an attribute, after a record was collected.
C4_Witness ==
    /\ pc = "aborted"
    /\ attr # None
    /\ file_info_list # <<>>

\* An attribute whose value is not of the kind its arm expects.
C5_KindMismatch(a) ==
    \/ a.name = "DW_AT_name" /\ a.kind # "DebugStrRef"
    \/ a.name = "DW_AT_decl_file" /\ a.kind # "FileIndex"
    \/ a.name = "DW_AT_decl_line" /\ a.kind # "Udata"
    \/ a.name = "DW_AT_decl_column" /\ a.kind # "Udata"

\* C5 (as claimed): a name, file, line or column attribute of an unexpected
\* kind never aborts the run; the attribute loop goes on.
C5_KindMismatchNeverAborts ==
    (attr # None /\ C5_KindMismatch(attr[1])) => pc = "attrs"

\* C6: for the module-file sentinel (index val - 1 = 0) the resolved file is
\* the unit's own name, whatever the unit's line-number program holds.
C6_SentinelIsUnitName ==
    (pc = "attrs" /\ attr # None /\ IsDeclFileIndex(attr[1]) /\ attr[1].val - 1 = 0) =>
        /\ unit[1].name # None
        /\ file_name = unit[1].name

\* The sentinel is resolved in a unit whose file table starts with another file.
C6_Witness ==
    /\ pc = "attrs"
    /\ attr # None /\ IsDeclFileIndex(attr[1]) /\ attr[1].val = 1
    /\ unit[1].line_program = Some(LineProgram1)
    /\ file_name = Some(Txt_abs_a_c)

C8_HeadersPlusDistinctRecords ==
    pc = "done" =>
        /\ Len(output) = 2 + Cardinality(Range(collected))
        /\ output[1] = Header1
        /\ output[2] = Header2
        /\ Len(file_info_list) = Cardinality(Range(collected))
        /\ Range(file_info_list) = Range(collected)
        /\ \A i \in 1 .. Len(file_info_list) :
              output[2 + i] = FormatLine(file_info_list[i])

\* The same record was collected twice and one data line is written.
C8_Witness ==
    /\ pc = "done"
    /\ Len(collected) = 2
    /\ collected[1] = collected[2]
    /\ Len(output) = 3

\* C9 (as claimed): nothing, header lines included, is written before sort
\* and dedup have finished.
C9_NothingWrittenBeforeSortDedup ==
    output # <<>> => pc \in {"emit", "done"}

\* C9 (amended): the header lines are written once the units are exhausted,
\* then sort and dedup run, then the data lines are written; no data line
\* exists before sort and dedup have finished, and each line is written once.
C9_DataLinesAfterSortDedup ==
    /\ pc \in {"load", "units", "entries", "attrs", "header1"} => output = <<>>
    /\ pc = "header2" => output = <<Header1>>
    /\ pc \in {"sort", "dedup"} => output = <<Header1, Header2>>
    /\ Len(output) > 2 =>
          /\ file_info_list = DedupList(SortList(collected))
          /\ Len(output) <= 2 + Len(file_info_list)
    /\ pc = "emit" => Len(output) = 2 + pos

\* The emitter is between the first and the second data line.
C9_Witness ==
    /\ pc = "emit"
    /\ pos = 1
    /\ Len(file_info_list) = 2
    /\ collected # file_info_list

\* C10: a declaring-file attribute with file index 0 always ends the run,
\* with nothing written: it is neither skipped nor resolved.
C10_FileIndexZeroAborts ==
    (attr # None /\ IsDeclFileIndex(attr[1]) /\ attr[1].val = 0) =>
        /\ pc = "aborted"
        /\ output = <<>>

\* File index 0 was read and the run has aborted.
C10_Witness ==
    /\ attr = Some([name |-> "DW_AT_decl_file", kind |-> "FileIndex", val |-> 0])
    /\ pc = "aborted"
    /\ file_info_list # <<>>

====
